---- MODULE Spec2Model ----
(***************************************************************************)
(* kwokctl runtime utilities (pkg/kwokctl/runtime/util.go).                *)
(*                                                                         *)
(* Part I  : Cluster.ForeachComponents, the dependency-grouped executor.   *)
(*           The calling flow is a process with a program counter (pc);    *)
(*           every component's action is a task that is spawned, invoked,  *)
(*           may look at its context, and returns nil or its own error.    *)
(*           errgroup (golang.org/x/sync) is modelled by the steps of the  *)
(*           goroutine g.Go starts: fun returns; on a non-nil error        *)
(*           errOnce.Do keeps the first error and cancels the group's      *)
(*           context; wg.Done. Wait blocks until every such goroutine is   *)
(*           done, releases (cancels) the context and returns the error.   *)
(* Part II : ApplyComponentPatches / applyComponentPatchArgs /             *)
(*           getKeyValueFromArg, over strings modelled as sequences of     *)
(*           characters.                                                   *)
(***************************************************************************)
EXTENDS Integers, Sequences, FiniteSets, TLC

VARIABLES
    \* ---- Part I: ForeachComponents -------------------------------------
    reverse,          \* parameter reverse
    order,            \* parameter order
    dryRun,           \* c.IsDryRun()
    solverGroups,     \* what components.GroupByLinks yields for the config
    groups,           \* local variable groups (after the optional Reverse)
    pc,               \* position of the calling flow inside ForeachComponents
    gi,               \* index of the group the outer range loop is at
    ci,               \* index of the component the inner range loop is at
    status,           \* per component: idle / spawned / running / ok / failed
    gpc,              \* per component: position of the goroutine g.Go started
                      \* for it: none / fun / errOnce / wgDone / exited
    ctxOf,            \* per component: the context its action was given
    scopes,           \* errgroup scopes created so far: id -> [cancelled, err]
    callerCancelled,  \* whether the caller's own ctx has been cancelled
    sawCancel,        \* per component: the action saw ctx.Done() while running
    calls,            \* per component: number of invocations of fun
    firstFailed,      \* first component whose action returned an error (0: none)
    retval,           \* the error ForeachComponents returned
    \* ---- Part II: ApplyComponentPatches --------------------------------
    component,        \* the component being patched: [name, args, envs, volumes]
    patch,            \* the patch the range loop of ApplyComponentPatches is at
    ppc,              \* position inside ApplyComponentPatches
    pidx,             \* number of patches the range loop has gone through
    aidx,             \* number of extra-arg directives gone through in this patch
    nextra,           \* number of extra-arg directives gone through in all patches
    nmatched,         \* number of patches so far whose name matched the component
    argsmap,          \* local variable argsmap of applyComponentPatchArgs
    before,           \* the component as it was when the current patch began
    cur,              \* the extra-arg directive that ran last in this patch
    overrode,         \* keys whose last directive in this patch replaced existing
                      \* values, with the value that directive carried
    directives,       \* the entries of patch.ExtraArgs gone through so far
    \* ---- Part III: GetLogVolumes ---------------------------------------
    lpc,              \* position inside GetLogVolumes
    lcat,             \* which of the four collecting loops is running (1..4)
    nfiles,           \* number of log / attach file entries gone through
    seenFiles,        \* the LogsFile paths gone through so far
    mountDirs,        \* local variable mountDirs (the keys of the map)
    volumes           \* the volumes returned

runVars == <<reverse, order, dryRun, solverGroups, groups, pc, gi, ci, status, gpc,
             ctxOf, scopes, callerCancelled, sawCancel, calls, firstFailed, retval>>
patchVars == <<component, patch, ppc, pidx, aidx, nextra, nmatched, argsmap, before,
              cur, overrode, directives>>
logVars == <<lpc, lcat, nfiles, seenFiles, mountDirs, volumes>>
vars == <<runVars, patchVars, logVars>>

----------------------------------------------------------------------------
(* Bounds *)

\* Number of components the configuration may hold.
MaxComponents == 4

\* Number of components of the configuration in the runs whose termination
\* is checked.
MaxFairComponents == 3

\* Number of tokens in the args of the component before patching.
MaxArgs == 2

\* Number of patches in the list given to ApplyComponentPatches.
MaxPatches == 3

\* Number of extra-arg directives in the whole list of patches.
MaxExtraArgs == 2

\* Number of log / attach entries in all the Logs, ClusterLogs, Attach and
\* ClusterAttach resources together.
MaxLogFiles == 3

----------------------------------------------------------------------------
(* Generic helpers *)

Range(s) == {s[i] : i \in 1..Len(s)}

RECURSIVE Flatten(_)
Flatten(gs) == IF gs = <<>> THEN <<>> ELSE Head(gs) \o Flatten(Tail(gs))

\* slices.Reverse: the same elements, last first.
Reverse(s) == [i \in 1..Len(s) |-> s[Len(s) + 1 - i]]

----------------------------------------------------------------------------
(* Part I: errors and contexts *)

NilErr == [kind |-> "nil", of |-> 0]
ConfigErr == [kind |-> "config", of |-> 0]
DependencyErr == [kind |-> "dependency", of |-> 0]
\* The error value the action of component c returns when it fails.
ActionErr(c) == [kind |-> "action", of |-> c]

\* Context ids: 0 is the caller's ctx; the errgroup scope made for the group at
\* index i of the ordered loop is i; the one scope of the unordered branch is 1.
CallerCtx == 0
UnorderedScope == 1

Components == 1..MaxComponents

\* A grouping of components 1..n: consecutive runs, cut after the positions in cuts.
RECURSIVE RunsFrom(_, _, _)
RunsFrom(from, n, cuts) ==
    IF from > n THEN <<>>
    ELSE LET stop == IF \E k \in cuts : k >= from
                     THEN CHOOSE k \in cuts : k >= from /\ \A j \in cuts : j >= from => k <= j
                     ELSE n
         IN <<[i \in 1..(stop - from + 1) |-> from + i - 1]>> \o RunsFrom(stop + 1, n, cuts)

\* The groupings the dependency solver may yield: every way of cutting the
\* declared components 1..n (0 <= n <= MaxComponents) into non-empty groups.
Groupings == {RunsFrom(1, x[1], x[2]) :
                 x \in {y \in (0..MaxComponents) \X SUBSET (1..(MaxComponents - 1)) :
                           y[2] \subseteq 1..(y[1] - 1)}}

Declared == Range(Flatten(solverGroups))

\* The signal an action sees on the context it was given: an errgroup scope is
\* derived from the caller's ctx, so it is done when either is cancelled.
Signal(c) ==
    \/ callerCancelled
    \/ /\ ctxOf[c] # CallerCtx
       /\ ctxOf[c] \in DOMAIN scopes
       /\ scopes[ctxOf[c]].cancelled

Invoked(c) == status[c] \in {"running", "ok", "failed"}
Returned(c) == status[c] \in {"ok", "failed"}
InFlight(c) == status[c] \in {"spawned", "running"}

\* Members of an errgroup scope: the tasks launched with g.Go under it.
Members(s) == {c \in Declared : status[c] # "idle" /\ ctxOf[c] = s}

----------------------------------------------------------------------------
(* Part I: the pieces of ForeachComponents *)

\* Faulty variant: the reverse flag is ignored.
NextGroupsIgnoreReverse(rev, gs) == gs

\* if reverse { groups = slices.Reverse(groups) }
NextGroups(rev, gs) == IF rev THEN Reverse(gs) ELSE gs

\* Faulty variant: respectOrder is looked at before the dry-run flag.
ModeOfOrderFirst(dry, ord) ==
    IF ord THEN "ordered" ELSE IF dry THEN "dry" ELSE "unordered"

\* if c.IsDryRun() {...}; if order {...} else {...}
ModeOf(dry, ord) == IF dry THEN "dry" ELSE IF ord THEN "ordered" ELSE "unordered"

\* Faulty variant: an error is never acted upon.
AbortNever(err) == FALSE

\* if err != nil { return err }
Abort(err) == err # NilErr

\* context.WithCancel inside errgroup.WithContext: a fresh, uncancelled scope.
NewScope == [cancelled |-> FALSE, err |-> NilErr]

\* Faulty variant: the last error wins.
ErrLast(sc, e) == [cancelled |-> TRUE, err |-> e]

\* Faulty variant: the first error is kept but the scope is not cancelled.
ErrOnceNoCancel(sc, e) ==
    IF sc.err = NilErr THEN [cancelled |-> sc.cancelled, err |-> e] ELSE sc

\* g.errOnce.Do(func() { g.err = err; g.cancel(g.err) }): the first error
\* handed in is kept and cancels the scope, later ones are dropped.
ErrOnce(sc, e) == IF sc.err = NilErr THEN [cancelled |-> TRUE, err |-> e] ELSE sc

\* Faulty variant: the join waits for every component, launched or not.
WgWaitDeclared(s) == \A c \in Declared : gpc[c] = "exited"

\* Faulty variant: the join ends as soon as one task has returned.
WgWaitAny(s) == \E c \in Members(s) : gpc[c] = "exited"

\* Faulty variant: the join ends at the first failure, without waiting for the others.
WgWaitOrFailed(s) ==
    \/ \A c \in Members(s) : gpc[c] = "exited"
    \/ scopes[s].err # NilErr

\* g.Wait() blocks until the goroutine of every task launched under the
\* scope has called wg.Done.
WgWait(s) == \A c \in Members(s) : gpc[c] = "exited"

\* Faulty variant: the join drops the kept error.
WaitErrDropped(sc) == NilErr

\* g.Wait() returns the error kept by the scope.
WaitErr(sc) == sc.err

\* Faulty variant: the inner loop starts over while the group has members left.
AdvanceCRestart(g, i) == 1

\* The position after component ci of group gi in the nested range loops.
AdvanceG(g, i) == IF i < Len(groups[g]) THEN g ELSE g + 1
AdvanceC(g, i) == IF i < Len(groups[g]) THEN i + 1 ELSE 1

\* Faulty variant: the ordered loop hands every group the scope of the first.
GoScopeOfFirstGroup(p, g) == 1

\* Faulty variant: the unordered branch makes a scope per group.
GoScopePerGroup(p, g) == g

\* The ctx captured by the closure passed to g.Go: the scope of the current
\* group in the ordered loop, the one scope of the run in the unordered branch.
GoScope(p, g) == IF p = "ordered_go" THEN g ELSE UnorderedScope

runInputs == <<reverse, order, dryRun, solverGroups>>

----------------------------------------------------------------------------
(* Part I: initial states *)

\* Part III is not running.
IdleLog ==
    /\ lpc = "idle"
    /\ lcat = 0
    /\ nfiles = 0
    /\ seenFiles = {}
    /\ mountDirs = {}
    /\ volumes = <<>>

\* Part II is not running.
IdlePatch ==
    /\ component = [name |-> "", args |-> <<>>, envs |-> <<>>, volumes |-> <<>>]
    /\ patch = [name |-> "", extraEnvs |-> <<>>, extraVolumes |-> <<>>]
    /\ ppc = "idle"
    /\ pidx = 0
    /\ aidx = 0
    /\ nextra = 0
    /\ nmatched = 0
    /\ argsmap = <<>>
    /\ before = [name |-> "", args |-> <<>>, envs |-> <<>>, volumes |-> <<>>]
    /\ cur = [key |-> <<>>, value |-> <<>>, override |-> FALSE]
    /\ overrode = <<>>
    /\ directives = <<>>

InitRun ==
    /\ reverse \in BOOLEAN
    /\ order \in BOOLEAN
    /\ dryRun \in BOOLEAN
    /\ solverGroups \in Groupings
    /\ groups = <<>>
    /\ pc = "config"
    /\ gi = 0
    /\ ci = 0
    /\ status = [c \in Components |-> "idle"]
    /\ gpc = [c \in Components |-> "none"]
    /\ ctxOf = [c \in Components |-> CallerCtx]
    /\ scopes = <<>>
    /\ callerCancelled = FALSE
    /\ sawCancel = [c \in Components |-> FALSE]
    /\ calls = [c \in Components |-> 0]
    /\ firstFailed = 0
    /\ retval = NilErr
    /\ IdlePatch
    /\ IdleLog

----------------------------------------------------------------------------
(* Part I: the calling flow *)

\* config, err := c.Config(ctx); if err != nil { return err }
Config ==
    /\ pc = "config"
    /\ \/ /\ pc' = "group"
          /\ UNCHANGED retval
       \/ /\ pc' = "done"
          /\ retval' = ConfigErr
    /\ UNCHANGED <<runInputs, groups, gi, ci, status, ctxOf, scopes,
                   callerCancelled, sawCancel, calls, firstFailed, gpc, patchVars, logVars>>

\* groups, err := components.GroupByLinks(...); reverse; then the mode is chosen.
GroupByLinks ==
    /\ pc = "group"
    /\ \/ /\ groups' = NextGroups(reverse, solverGroups)
          /\ pc' = ModeOf(dryRun, order)
          /\ gi' = 1
          /\ ci' = 1
          /\ UNCHANGED retval
       \/ /\ pc' = "done"
          /\ retval' = DependencyErr
          /\ UNCHANGED <<groups, gi, ci>>
    /\ UNCHANGED <<runInputs, status, ctxOf, scopes, callerCancelled, sawCancel,
                   calls, firstFailed, gpc, patchVars, logVars>>

\* fun(ctx, component) called inline by the calling flow: the dry-run loop and
\* the one-member group of the ordered loop. The caller's ctx is passed.
InlineInvoke ==
    /\ pc \in {"dry", "ordered"}
    /\ gi <= Len(groups)
    /\ pc = "ordered" => Len(groups[gi]) = 1
    /\ LET c == groups[gi][ci] IN
          /\ status' = [status EXCEPT ![c] = "running"]
          /\ ctxOf' = [ctxOf EXCEPT ![c] = CallerCtx]
          /\ calls' = [calls EXCEPT ![c] = @ + 1]
    /\ pc' = IF pc = "dry" THEN "dry_call" ELSE "ordered_call"
    /\ UNCHANGED <<runInputs, groups, gi, ci, scopes, callerCancelled, sawCancel,
                   firstFailed, retval, gpc, patchVars, logVars>>

\* The inline call returns err; a non-nil err is returned at once, otherwise the
\* loops move on to the next component.
InlineReturn ==
    /\ pc \in {"dry_call", "ordered_call"}
    /\ LET c == groups[gi][ci] IN
       \E err \in {NilErr, ActionErr(c)} :
          /\ status' = [status EXCEPT ![c] = IF err = NilErr THEN "ok" ELSE "failed"]
          /\ firstFailed' = IF err # NilErr /\ firstFailed = 0 THEN c ELSE firstFailed
          /\ IF Abort(err)
             THEN /\ pc' = "done"
                  /\ retval' = err
                  /\ UNCHANGED <<gi, ci>>
             ELSE /\ pc' = IF pc = "dry_call" THEN "dry" ELSE "ordered"
                  /\ gi' = AdvanceG(gi, ci)
                  /\ ci' = AdvanceC(gi, ci)
                  /\ UNCHANGED retval
    /\ UNCHANGED <<runInputs, groups, ctxOf, scopes, callerCancelled, sawCancel,
                   calls, gpc, patchVars, logVars>>

\* g, ctx := errgroup.WithContext(ctx) for a group of the ordered loop that
\* does not have exactly one member, or once for the unordered branch.
WithContext ==
    /\ \/ /\ pc = "ordered"
          /\ gi <= Len(groups)
          /\ Len(groups[gi]) # 1
          /\ scopes' = [s \in DOMAIN scopes \cup {gi} |->
                           IF s = gi THEN NewScope ELSE scopes[s]]
          /\ pc' = "ordered_go"
       \/ /\ pc = "unordered"
          /\ scopes' = [s \in DOMAIN scopes \cup {UnorderedScope} |->
                           IF s = UnorderedScope THEN NewScope ELSE scopes[s]]
          /\ pc' = IF Len(groups) = 0 THEN "unordered_wait" ELSE "unordered_go"
    /\ UNCHANGED <<runInputs, groups, gi, ci, status, ctxOf, callerCancelled,
                   sawCancel, calls, firstFailed, retval, gpc, patchVars, logVars>>

\* g.Go(func() error { return fun(ctx, component) }) for the next component of
\* the range loop(s); after the last one the flow reaches g.Wait().
Go ==
    /\ pc \in {"ordered_go", "unordered_go"}
    /\ LET c == groups[gi][ci] IN
          /\ status' = [status EXCEPT ![c] = "spawned"]
          /\ ctxOf' = [ctxOf EXCEPT ![c] = GoScope(pc, gi)]
          /\ gpc' = [gpc EXCEPT ![c] = "fun"]
    /\ IF pc = "ordered_go"
       THEN /\ ci' = ci + 1
            /\ pc' = IF ci < Len(groups[gi]) THEN "ordered_go" ELSE "ordered_wait"
            /\ UNCHANGED gi
       ELSE /\ gi' = AdvanceG(gi, ci)
            /\ ci' = AdvanceC(gi, ci)
            /\ pc' = IF AdvanceG(gi, ci) <= Len(groups)
                     THEN "unordered_go" ELSE "unordered_wait"
    /\ UNCHANGED <<runInputs, groups, scopes, callerCancelled, sawCancel, calls,
                   firstFailed, retval, patchVars, logVars>>

\* if err := g.Wait(); err != nil { return err }: the join of the scope. Wait
\* releases the scope's context; a kept error ends the run, otherwise the
\* ordered loop goes to the next group and the unordered branch returns nil.
Wait ==
    /\ pc \in {"ordered_wait", "unordered_wait"}
    /\ LET s == IF pc = "ordered_wait" THEN gi ELSE UnorderedScope IN
          /\ WgWait(s)
          /\ scopes' = [scopes EXCEPT ![s].cancelled = TRUE]
          /\ IF Abort(WaitErr(scopes[s]))
             THEN /\ pc' = "done"
                  /\ retval' = WaitErr(scopes[s])
                  /\ UNCHANGED <<gi, ci>>
             ELSE IF pc = "ordered_wait"
             THEN /\ pc' = "ordered"
                  /\ gi' = gi + 1
                  /\ ci' = 1
                  /\ UNCHANGED retval
             ELSE /\ pc' = "done"
                  /\ retval' = NilErr
                  /\ UNCHANGED <<gi, ci>>
    /\ UNCHANGED <<runInputs, groups, status, ctxOf, callerCancelled, sawCancel,
                   calls, firstFailed, gpc, patchVars, logVars>>

\* return nil after the last group of the dry-run loop or of the ordered loop.
ReturnNil ==
    /\ pc \in {"dry", "ordered"}
    /\ gi > Len(groups)
    /\ pc' = "done"
    /\ retval' = NilErr
    /\ UNCHANGED <<runInputs, groups, gi, ci, status, ctxOf, scopes,
                   callerCancelled, sawCancel, calls, firstFailed, gpc, patchVars, logVars>>

----------------------------------------------------------------------------
(* Part I: the tasks launched by g.Go, and the environment *)

\* The goroutine of component c starts running: fun(ctx, component) is invoked.
TaskStart(c) ==
    /\ status[c] = "spawned"
    /\ status' = [status EXCEPT ![c] = "running"]
    /\ calls' = [calls EXCEPT ![c] = @ + 1]
    /\ UNCHANGED <<runInputs, groups, pc, gi, ci, ctxOf, scopes, callerCancelled,
                   sawCancel, firstFailed, retval, gpc, patchVars, logVars>>

\* fun returns in the goroutine of component c, with nil or with its error.
\* Nothing else has happened yet: the error is not recorded, the scope is as
\* it was, and the goroutine still counts for Wait.
TaskReturn(c) ==
    /\ status[c] = "running"
    /\ gpc[c] = "fun"
    /\ \E err \in {NilErr, ActionErr(c)} :
          /\ status' = [status EXCEPT ![c] = IF err = NilErr THEN "ok" ELSE "failed"]
          /\ firstFailed' = IF err # NilErr /\ firstFailed = 0 THEN c ELSE firstFailed
          /\ gpc' = [gpc EXCEPT ![c] = IF err = NilErr THEN "wgDone" ELSE "errOnce"]
    /\ UNCHANGED <<runInputs, groups, pc, gi, ci, ctxOf, scopes, callerCancelled,
                   sawCancel, calls, retval, patchVars, logVars>>

\* g.errOnce.Do in the goroutine of component c, whose fun returned an error:
\* the first error of the group is kept and cancels its scope.
TaskErrOnce(c) ==
    /\ gpc[c] = "errOnce"
    /\ scopes' = [scopes EXCEPT ![ctxOf[c]] = ErrOnce(@, ActionErr(c))]
    /\ gpc' = [gpc EXCEPT ![c] = "wgDone"]
    /\ UNCHANGED <<runInputs, groups, pc, gi, ci, status, ctxOf, callerCancelled,
                   sawCancel, calls, firstFailed, retval, patchVars, logVars>>

\* The deferred g.done() of the goroutine of component c: wg.Done.
TaskDone(c) ==
    /\ gpc[c] = "wgDone"
    /\ gpc' = [gpc EXCEPT ![c] = "exited"]
    /\ UNCHANGED <<runInputs, groups, pc, gi, ci, status, ctxOf, scopes,
                   callerCancelled, sawCancel, calls, firstFailed, retval,
                   patchVars, logVars>>

\* A running action looks at ctx.Done() and finds it closed. Nothing else
\* happens to it: it keeps running until it returns by itself.
Observe(c) ==
    /\ status[c] = "running"
    /\ Signal(c)
    /\ ~sawCancel[c]
    /\ sawCancel' = [sawCancel EXCEPT ![c] = TRUE]
    /\ UNCHANGED <<runInputs, groups, pc, gi, ci, status, ctxOf, scopes,
                   callerCancelled, calls, firstFailed, retval, gpc, patchVars, logVars>>

\* The caller cancels the ctx it passed to ForeachComponents.
CancelCaller ==
    /\ pc # "done"
    /\ ~callerCancelled
    /\ callerCancelled' = TRUE
    /\ UNCHANGED <<runInputs, groups, pc, gi, ci, status, ctxOf, scopes,
                   sawCancel, calls, firstFailed, retval, gpc, patchVars, logVars>>

NextRun ==
    \/ Config
    \/ GroupByLinks
    \/ InlineInvoke
    \/ InlineReturn
    \/ WithContext
    \/ Go
    \/ Wait
    \/ ReturnNil
    \/ \E c \in Components : TaskStart(c)
    \/ \E c \in Components : TaskReturn(c)
    \/ \E c \in Components : TaskErrOnce(c)
    \/ \E c \in Components : TaskDone(c)
    \/ \E c \in Components : Observe(c)
    \/ CancelCaller

SpecRun == InitRun /\ [][NextRun]_vars

----------------------------------------------------------------------------
(* Part I: properties of ForeachComponents *)

OrderedMode == ~dryRun /\ order
UnorderedMode == ~dryRun /\ ~order
\* GroupByLinks has returned the groups without error.
Started ==
    /\ pc \notin {"config", "group"}
    /\ retval \notin {ConfigErr, DependencyErr}

\* Index of the group of component c in the traversal order / the solver order.
GroupIdx(c) == CHOOSE i \in 1..Len(groups) : c \in Range(groups[i])
SolverIdx(c) == CHOOSE i \in 1..Len(solverGroups) : c \in Range(solverGroups[i])
\* Position of component c inside its group, as the solver declared it.
PosInGroup(c) ==
    CHOOSE k \in 1..Len(solverGroups[SolverIdx(c)]) : solverGroups[SolverIdx(c)][k] = c

Failed == {c \in Declared : status[c] = "failed"}

\* C1: in ordered mode a component of a later group is not even launched
\* before every component of every earlier group has returned, and all
\* actions in flight at one moment belong to one group.
C1_GroupBarrier ==
    (OrderedMode /\ Started) =>
        \A c, d \in Declared :
            /\ (GroupIdx(c) < GroupIdx(d) /\ status[d] # "idle") => Returned(c)
            /\ (InFlight(c) /\ InFlight(d)) => GroupIdx(c) = GroupIdx(d)

\* A member of a later group runs after a several-member group was joined.
C1_Witness ==
    /\ OrderedMode /\ Started
    /\ \E c, d \in Declared :
          /\ GroupIdx(c) < GroupIdx(d)
          /\ Len(groups[GroupIdx(c)]) > 1
          /\ status[d] = "running"

\* C2: in ordered mode, once an action of some group has failed, every
\* component of every later group stays untouched (never launched).
C2_NoLaterGroupAfterFailure ==
    (OrderedMode /\ Started) =>
        \A c, d \in Declared :
            (status[c] = "failed" /\ GroupIdx(c) < GroupIdx(d)) => status[d] = "idle"

\* The run ended on a failure in a concurrent batch that has a later group.
C2_Witness ==
    /\ OrderedMode /\ Started /\ pc = "done"
    /\ \E c, d \in Declared :
          /\ status[c] = "failed"
          /\ ctxOf[c] # CallerCtx
          /\ GroupIdx(c) < GroupIdx(d)

\* C3: once ForeachComponents has returned, a nil result means no invoked
\* action failed, and if some action failed the result is the very error of
\* one of the failed actions.
C3_ReturnValue ==
    pc = "done" =>
        /\ retval = NilErr => Failed = {}
        /\ Failed # {} => \E c \in Failed : retval = ActionErr(c)

\* Two actions failed and the result is the error of one of them.
C3_Witness ==
    /\ pc = "done"
    /\ Cardinality(Failed) >= 2
    /\ \E c \in Failed : retval = ActionErr(c)

\* C4 as first stated: when actions of a concurrent batch failed, the result
\* is the error of the one whose action returned first.
C4_FirstCompletedFailure ==
    (pc = "done" /\ ~dryRun /\ firstFailed # 0 /\ ctxOf[firstFailed] # CallerCtx) =>
        retval = ActionErr(firstFailed)

\* C4: the error a group holds is the one its errOnce.Do was handed first:
\* the step of a failed member that hands in its error records it when the
\* group holds none and leaves the held one otherwise; and when actions of a
\* concurrent batch failed, the result is the error the group of that batch
\* holds, which is the error of one of its failed members.
C4_FirstRecordedFailure ==
    /\ [][\A c \in Components :
             (gpc[c] = "errOnce" /\ gpc'[c] # "errOnce") =>
                 scopes'[ctxOf[c]].err =
                     IF scopes[ctxOf[c]].err = NilErr
                     THEN ActionErr(c) ELSE scopes[ctxOf[c]].err]_vars
    /\ [](\A s \in DOMAIN scopes :
             scopes[s].err # NilErr =>
                 \E c \in Members(s) : status[c] = "failed" /\ scopes[s].err = ActionErr(c))
    /\ []((pc = "done" /\ ~dryRun) =>
             \A c \in Failed :
                 ctxOf[c] # CallerCtx => retval = scopes[ctxOf[c]].err)

\* Two members of one batch failed; the action of the later-declared one
\* returned first, the error of the other one was recorded first and is the
\* result.
C4_Witness ==
    /\ pc = "done" /\ ~dryRun
    /\ \E c, d \in Failed :
          /\ ctxOf[c] = ctxOf[d] /\ ctxOf[c] # CallerCtx
          /\ SolverIdx(c) = SolverIdx(d)
          /\ PosInGroup(c) < PosInGroup(d)
          /\ firstFailed = d
          /\ scopes[ctxOf[c]].err = ActionErr(c)
          /\ retval = ActionErr(c)

\* C5 as first stated: the step in which the action of a member of a
\* concurrent batch returns an error raises the signal of the batch's scope,
\* so every sibling still running under that scope has the signal up, and
\* the step changes the status of no other task.
C5_CancelOnFailure ==
    [][\A c \in Components :
          (status[c] = "running" /\ status'[c] = "failed" /\ ctxOf[c] # CallerCtx) =>
              /\ scopes'[ctxOf[c]].cancelled
              /\ \A d \in Components \ {c} :
                    /\ status'[d] = status[d]
                    /\ (status[d] = "running" /\ ctxOf[d] = ctxOf[c]) => Signal(d)']_vars

\* C5: the goroutine of a member whose action returned an error raises the
\* signal of the batch's scope in its next step, errOnce.Do, so every sibling
\* still running under that scope then has the signal up; the signal is up
\* before the member counts as done for the join; and no step of a goroutine
\* changes the status of another task.
C5_CancelBeforeDone ==
    /\ [][\A c \in Components :
             (gpc[c] = "errOnce" /\ gpc'[c] # "errOnce") =>
                 /\ scopes'[ctxOf[c]].cancelled
                 /\ \A d \in Components \ {c} :
                       (status[d] = "running" /\ ctxOf[d] = ctxOf[c]) => Signal(d)']_vars
    /\ [][\A c \in Components :
             gpc'[c] # gpc[c] =>
                 \A d \in Components \ {c} : status'[d] = status[d]]_vars
    /\ [](\A c \in Components :
             (status[c] = "failed" /\ gpc[c] \in {"wgDone", "exited"}) =>
                 scopes[ctxOf[c]].cancelled)

\* The error of a failed member has been handed in, and a sibling that is
\* still running has observed the signal this raised.
C5_Witness ==
    /\ ~callerCancelled
    /\ \E c, d \in Declared :
          /\ c # d
          /\ status[c] = "failed"
          /\ gpc[c] = "wgDone"
          /\ scopes[ctxOf[c]].err = ActionErr(c)
          /\ ctxOf[d] = ctxOf[c] /\ ctxOf[c] # CallerCtx
          /\ status[d] = "running"
          /\ sawCancel[d]

\* C6: in unordered mode there is one scope, every launched action runs
\* under it, and when the launch loop is over every component of every
\* group has been launched, whatever has failed meanwhile; at the return all
\* of them have been invoked and have returned.
C6_UnorderedLaunchesAll ==
    (UnorderedMode /\ Started) =>
        /\ DOMAIN scopes \subseteq {UnorderedScope}
        /\ \A c \in Declared : status[c] # "idle" => ctxOf[c] = UnorderedScope
        /\ pc \in {"unordered_wait", "done"} => \A c \in Declared : status[c] # "idle"
        /\ pc = "done" => \A c \in Declared : Returned(c)

\* A component of a later group runs while the launch loop is still going on,
\* a component of an earlier group has failed and another one is in flight.
C6_Witness ==
    /\ UnorderedMode /\ Started
    /\ \E c, d, e \in Declared :
          /\ GroupIdx(c) < GroupIdx(d)
          /\ status[c] = "failed"
          /\ InFlight(e) /\ GroupIdx(e) <= GroupIdx(c)
          /\ status[d] = "running"

\* C7: in dry-run mode at most one action is in flight, an action is invoked
\* only after all components before it (group order, then order inside the
\* group) have returned without error, and a failure ends the run with it.
C7_DryRunSequential ==
    (dryRun /\ Started) =>
        LET flat == Flatten(groups) IN
        /\ Cardinality({c \in Declared : InFlight(c)}) <= 1
        /\ \A p, q \in 1..Len(flat) :
              (p < q /\ status[flat[q]] # "idle") => status[flat[p]] = "ok"
        /\ \A c \in Failed : pc = "done" /\ retval = ActionErr(c)

\* With respectOrder=false, the second member of a group was invoked after the
\* first one had succeeded, failed, and ended the run.
C7_Witness ==
    /\ dryRun /\ ~order /\ Started /\ pc = "done"
    /\ \E c, d \in Declared :
          /\ SolverIdx(c) = SolverIdx(d)
          /\ PosInGroup(c) < PosInGroup(d)
          /\ status[c] = "ok"
          /\ status[d] = "failed"

\* C8: the traversal order is the solver's order read back to front when
\* reverse is set and the solver's order otherwise, each group unchanged; in
\* ordered mode a group is launched only after the groups before it in that
\* order have returned, and in dry-run mode the members of a group are
\* invoked in the order the solver declared them.
C8_ReverseOrder ==
    Started =>
        /\ Len(groups) = Len(solverGroups)
        /\ \A i \in 1..Len(groups) :
              groups[i] = solverGroups[IF reverse THEN Len(solverGroups) + 1 - i ELSE i]
        /\ OrderedMode =>
              \A c, d \in Declared :
                  (SolverIdx(c) < SolverIdx(d)) =>
                      IF reverse THEN status[c] # "idle" => Returned(d)
                                 ELSE status[d] # "idle" => Returned(c)
        /\ dryRun =>
              \A c, d \in Declared :
                  (SolverIdx(c) = SolverIdx(d) /\ PosInGroup(c) < PosInGroup(d)
                     /\ status[d] # "idle") => Returned(c)

\* Reverse traversal in ordered mode: a member of the solver's first group
\* runs after the solver's last group, a several-member one, has returned.
C8_Witness ==
    /\ reverse /\ OrderedMode /\ Started
    /\ \E c, d \in Declared :
          /\ SolverIdx(c) < SolverIdx(d)
          /\ Len(solverGroups[SolverIdx(d)]) > 1
          /\ status[c] = "running"
          /\ Returned(d)

\* C9: when ForeachComponents has returned, no action it launched is in
\* flight (neither spawned nor running).
C9_NoReturnWhileInFlight ==
    pc = "done" => \A c \in Components : ~InFlight(c)

\* The run ended on a failure; a sibling of the failed action was still
\* running after the failure (it saw the signal) and was waited for.
C9_Witness ==
    /\ pc = "done" /\ ~callerCancelled
    /\ \E c, d \in Declared :
          /\ c # d
          /\ retval = ActionErr(c)
          /\ ctxOf[d] = ctxOf[c] /\ ctxOf[c] # CallerCtx
          /\ Returned(d)
          /\ sawCancel[d]

\* C17: in one call the action of a component is invoked at most once, in
\* every mode; a call that returns nil has computed the groups, and when it
\* returns nil, or returns at all in unordered mode once the groups exist,
\* the action of every component of every group has been invoked exactly once.
C17_InvokedOnce ==
    /\ \A c \in Components : calls[c] <= 1
    /\ (pc = "done" /\ retval = NilErr) => Started
    /\ (pc = "done" /\ Started /\ (retval = NilErr \/ UnorderedMode)) =>
          \A g \in 1..Len(groups) : \A k \in 1..Len(groups[g]) :
              calls[groups[g][k]] = 1

\* An unordered run over three groups has returned the error of a component
\* of the first group, and every action has been invoked once.
C17_Witness ==
    /\ pc = "done"
    /\ UnorderedMode
    /\ Len(groups) = 3
    /\ firstFailed \in Range(groups[1])
    /\ retval = ActionErr(firstFailed)
    /\ \A c \in Declared : calls[c] = 1
    /\ \E c \in Range(groups[3]) : status[c] = "ok"

\* Another member of the group of c has returned an error.
FailedSibling(c) ==
    \E d \in Range(groups[GroupIdx(c)]) : d # c /\ status[d] = "failed"

\* C18: in ordered mode, as long as the caller has not cancelled its ctx, an
\* action that is in flight has a raised signal on its ctx, or has seen one,
\* only when another member of its own group has returned an error; the
\* scope of a group is uncancelled when it is made; every launched member of
\* a group that does not have exactly one member was given the scope of that
\* group, never that of an earlier group, which the join has released; and
\* the action of a one-member group was given the caller's ctx.
C18_SignalFromOwnGroup ==
    (OrderedMode /\ Started /\ ~callerCancelled) =>
        /\ \A c \in Declared :
              /\ (InFlight(c) /\ Signal(c)) => FailedSibling(c)
              /\ sawCancel[c] => FailedSibling(c)
              /\ status[c] # "idle" =>
                    ctxOf[c] = IF Len(groups[GroupIdx(c)]) = 1
                               THEN CallerCtx ELSE GroupIdx(c)
        /\ (pc = "ordered_go" /\ Members(gi) = {}) => scopes[gi] = NewScope
        /\ \A s \in DOMAIN scopes :
              (pc \in {"ordered", "ordered_call", "ordered_go", "ordered_wait"} /\ s < gi)
                  => scopes[s].cancelled

\* The first group was joined without error and its scope released; in the
\* second group one action failed and a sibling still running saw the signal.
C18_Witness ==
    /\ OrderedMode /\ Started /\ ~callerCancelled
    /\ 1 \in DOMAIN scopes /\ scopes[1].cancelled /\ scopes[1].err = NilErr
    /\ \E c \in Declared :
          /\ GroupIdx(c) = 2
          /\ status[c] = "running"
          /\ sawCancel[c]
          /\ ctxOf[c] = 2
          /\ FailedSibling(c)

\* The calling flow keeps running, the scheduler starts every goroutine that
\* g.Go launched and lets it take its steps, and every invoked action
\* returns, in the flow that called it inline or in its goroutine. The caller need not cancel and an action
\* need not look at its ctx.
FairRun ==
    /\ WF_vars(Config)
    /\ WF_vars(GroupByLinks)
    /\ WF_vars(InlineInvoke)
    /\ WF_vars(InlineReturn)
    /\ WF_vars(WithContext)
    /\ WF_vars(Go)
    /\ WF_vars(Wait)
    /\ WF_vars(ReturnNil)
    /\ \A c \in Components : WF_vars(TaskStart(c))
    /\ \A c \in Components : WF_vars(TaskReturn(c))
    /\ \A c \in Components : WF_vars(TaskErrOnce(c))
    /\ \A c \in Components : WF_vars(TaskDone(c))

\* The runs over configurations of up to MaxFairComponents components.
InitRunFair ==
    /\ InitRun
    /\ Len(Flatten(solverGroups)) <= MaxFairComponents

SpecRunFair == InitRunFair /\ [][NextRun]_vars /\ FairRun

AtJoin == pc \in {"ordered_wait", "unordered_wait"}

\* C19: when every invoked action returns, ForeachComponents returns, in
\* dry-run, ordered and unordered mode alike; in particular a join that is
\* reached, with or without a failed member, is left.
C19_RunReturns ==
    /\ <>(pc = "done")
    /\ \A dry, ord \in BOOLEAN :
          (pc = "group" /\ dryRun = dry /\ order = ord) ~> (pc = "done")
    /\ AtJoin ~> ~AtJoin
    /\ (AtJoin /\ Failed # {}) ~> (pc = "done")

\* The run went through a join and has returned the error of a member of
\* the joined scope, another member of which returned without error.
C19_Witness ==
    /\ pc = "done"
    /\ ~dryRun
    /\ retval # NilErr
    /\ firstFailed # 0
    /\ retval = ActionErr(firstFailed)
    /\ ctxOf[firstFailed] # CallerCtx
    /\ \E c \in Declared : c # firstFailed /\ ctxOf[c] = ctxOf[firstFailed] /\ status[c] = "ok"

----------------------------------------------------------------------------
(* Part II: strings. A Go string is a sequence of one-character strings.   *)

Dash == "-"
Eq == "="

\* Byte value of the characters in use (sort.Strings compares bytes).
Ord(ch) ==
    CASE ch = "-" -> 45
      [] ch = "." -> 46
      [] ch = "/" -> 47
      [] ch = "=" -> 61
      [] ch = "a" -> 97
      [] ch = "b" -> 98
      [] ch = "x" -> 120
      [] ch = "y" -> 121
      [] ch = "z" -> 122

\* strings.Contains(s, ch) for a one-character ch.
Contains(s, ch) == \E i \in 1..Len(s) : s[i] = ch

\* strings.HasPrefix(s, prefix)
HasPrefix(s, prefix) ==
    /\ Len(s) >= Len(prefix)
    /\ SubSeq(s, 1, Len(prefix)) = prefix

\* strings.Split(s, "=")[0]: what precedes the first "=", or all of s.
FirstField(s) ==
    IF Contains(s, Eq)
    THEN LET i == CHOOSE i \in 1..Len(s) : s[i] = Eq /\ \A j \in 1..(i - 1) : s[j] # Eq
         IN SubSeq(s, 1, i - 1)
    ELSE s

\* strings.ReplaceAll(s, old, ""), old not empty: every non-overlapping
\* occurrence of old, found from the left, is removed.
RECURSIVE RemoveAll(_, _)
RemoveAll(s, old) ==
    IF Len(s) < Len(old) THEN s
    ELSE IF HasPrefix(s, old) THEN RemoveAll(SubSeq(s, Len(old) + 1, Len(s)), old)
    ELSE <<s[1]>> \o RemoveAll(Tail(s), old)

\* fmt.Sprintf("--%s=%s", k, v)
Sprintf(k, v) == <<Dash, Dash>> \o k \o <<Eq>> \o v

\* s < t in the byte-wise lexicographic order of Go strings.
StrLess(s, t) ==
    \E i \in 1..(Len(t)) :
        /\ \A j \in 1..(i - 1) : j <= Len(s) /\ s[j] = t[j]
        /\ \/ i > Len(s)
           \/ Ord(s[i]) < Ord(t[i])

\* sort.Strings
RECURSIVE InsertSorted(_, _)
InsertSorted(t, sorted) ==
    IF sorted = <<>> THEN <<t>>
    ELSE IF StrLess(Head(sorted), t) THEN <<Head(sorted)>> \o InsertSorted(t, Tail(sorted))
    ELSE <<t>> \o sorted

\* Faulty variant: the tokens are left in the order the map yielded them.
SortStringsSkipped(s) == s

RECURSIVE SortStrings(_)
SortStrings(s) == IF s = <<>> THEN <<>> ELSE InsertSorted(Head(s), SortStrings(Tail(s)))

----------------------------------------------------------------------------
(* Part II: the functions *)

\* Faulty variant: the "--" prefix is not required.
getKeyValueFromArgAnyPrefix(arg) ==
    IF ~Contains(arg, Eq) THEN <<<<>>, <<>>>>
    ELSE <<RemoveAll(FirstField(arg), <<Dash, Dash>>),
           RemoveAll(arg, FirstField(arg) \o <<Eq>>)>>

\* getKeyValueFromArg: <<key, value>>, both empty for a token without "=" or
\* without the "--" prefix.
getKeyValueFromArg(arg) ==
    IF ~Contains(arg, Eq) THEN <<<<>>, <<>>>>
    ELSE IF ~HasPrefix(arg, <<Dash, Dash>>) THEN <<<<>>, <<>>>>
    ELSE <<RemoveAll(FirstField(arg), <<Dash, Dash>>),
           RemoveAll(arg, FirstField(arg) \o <<Eq>>)>>

\* make(map[string][]string)
EmptyMap == [k \in {} |-> <<>>]

\* argsmap[k] = values
MapPut(m, k, values) == [x \in DOMAIN m \cup {k} |-> IF x = k THEN values ELSE m[x]]

\* values := []string{}; if _, ok := argsmap[k]; ok { values = argsmap[k] }
MapGet(m, k) == IF k \in DOMAIN m THEN m[k] ELSE <<>>

\* Faulty variant: a key that has a value already keeps it alone.
RECURSIVE ParseIntoKeepFirst(_, _)
ParseIntoKeepFirst(m, args) ==
    IF args = <<>> THEN m
    ELSE LET kv == getKeyValueFromArg(Head(args)) IN
         IF kv[1] = <<>> \/ kv[2] = <<>> \/ kv[1] \in DOMAIN m
         THEN ParseIntoKeepFirst(m, Tail(args))
         ELSE ParseIntoKeepFirst(MapPut(m, kv[1], <<kv[2]>>), Tail(args))

\* The first loop of applyComponentPatchArgs: the args parsed into argsmap,
\* tokens with an empty key or an empty value skipped.
RECURSIVE ParseInto(_, _)
ParseInto(m, args) ==
    IF args = <<>> THEN m
    ELSE LET kv == getKeyValueFromArg(Head(args)) IN
         IF kv[1] = <<>> \/ kv[2] = <<>>
         THEN ParseInto(m, Tail(args))
         ELSE ParseInto(MapPut(m, kv[1], Append(MapGet(m, kv[1]), kv[2])), Tail(args))

ParseArgs(args) == ParseInto(EmptyMap, args)

\* Faulty variant: override is ignored, the value is always appended.
ApplyExtraArgAppendOnly(m, a) == MapPut(m, a.key, Append(MapGet(m, a.key), a.value))

\* Faulty variant: a value the key already carries is not added again.
ApplyExtraArgDedup(m, a) ==
    LET existOldArg == a.key \in DOMAIN m
        values == IF existOldArg /\ a.override THEN <<>> ELSE MapGet(m, a.key)
    IN MapPut(m, a.key,
              IF \E i \in 1..Len(values) : values[i] = a.value
              THEN values ELSE Append(values, a.value))

\* The body of the second loop of applyComponentPatchArgs for one directive a.
ApplyExtraArg(m, a) ==
    LET existOldArg == a.key \in DOMAIN m
        values == IF existOldArg /\ a.override THEN <<>> ELSE MapGet(m, a.key)
    IN MapPut(m, a.key, Append(values, a.value))

\* The second loop over a whole ExtraArgs list.
RECURSIVE ApplyExtraArgs(_, _)
ApplyExtraArgs(m, extraArgs) ==
    IF extraArgs = <<>> THEN m
    ELSE ApplyExtraArgs(ApplyExtraArg(m, Head(extraArgs)), Tail(extraArgs))

\* The third loop: one token per (key, value) pair, in some map order.
RECURSIVE TokensOf(_, _)
TokensOf(m, keys) ==
    IF keys = {} THEN <<>>
    ELSE LET k == CHOOSE k \in keys : TRUE
         IN [i \in 1..Len(m[k]) |-> Sprintf(k, m[k][i])] \o TokensOf(m, keys \ {k})

\* The third loop and sort.Strings: the new component.Args.
Rebuild(m) == SortStrings(TokensOf(m, DOMAIN m))

\* applyComponentPatchArgs on a matching patch, as a function of the args.
applyComponentPatchArgs(args, extraArgs) ==
    Rebuild(ApplyExtraArgs(ParseArgs(args), extraArgs))

\* Faulty variant: the name of the patch is not looked at.
applyComponentPatchAnyName(comp, p) ==
    [comp EXCEPT !.volumes = @ \o p.extraVolumes,
                 !.envs = @ \o p.extraEnvs,
                 !.args = applyComponentPatchArgs(comp.args, p.extraArgs)]

\* applyComponentPatch as a function of the component.
applyComponentPatch(comp, p) ==
    IF p.name # comp.name THEN comp
    ELSE [comp EXCEPT !.volumes = @ \o p.extraVolumes,
                      !.envs = @ \o p.extraEnvs,
                      !.args = applyComponentPatchArgs(comp.args, p.extraArgs)]

----------------------------------------------------------------------------
(* Part II: inputs *)

ComponentName == "test"
OtherName == "other"

\* Tokens the args of the component may hold before patching: well-formed
\* ones, one with "=" inside the value, one whose value holds its own
\* "--key=", one with an empty value, one with a single dash, one without "=".
BaseTokens ==
    { <<"-", "-", "a", "=", "x">>,
      <<"-", "-", "b", "=", "x">>,
      <<"-", "-", "a", "=", "x", "=", "y">>,
      <<"-", "-", "a", "=", "-", "-", "a", "=", "x">>,
      <<"-", "-", "b", "=">>,
      <<"-", "a", "=", "x">>,
      <<"-", "-", "b">> }

RECURSIVE SeqsUpTo(_, _)
SeqsUpTo(S, n) ==
    IF n = 0 THEN {<<>>}
    ELSE LET shorter == SeqsUpTo(S, n - 1)
         IN shorter \cup {Append(q, e) : q \in {r \in shorter : Len(r) = n - 1}, e \in S}

BaselineArgs == SeqsUpTo(BaseTokens, MaxArgs)

ExtraKeys == {<<"a">>, <<"b">>}
ExtraValues == {<<"y">>, <<"z">>}
\* internalversion.ExtraArgs
ExtraArgsSet == [key : ExtraKeys, value : ExtraValues, override : BOOLEAN]

\* ExtraArgs of a patch whose name differs from the component's: none or one.
SkippedExtraArgs == {<<>>} \cup {<<a>> : a \in ExtraArgsSet}

\* ExtraEnvs / ExtraVolumes of a patch: one entry each.
ExtraEnvsSet == {<<"ENV">>}
ExtraVolumesSet == {<<"VOL">>}

\* Part I is not running.
IdleRun ==
    /\ reverse = FALSE
    /\ order = FALSE
    /\ dryRun = FALSE
    /\ solverGroups = <<>>
    /\ groups = <<>>
    /\ pc = "idle"
    /\ gi = 0
    /\ ci = 0
    /\ status = [c \in Components |-> "idle"]
    /\ gpc = [c \in Components |-> "none"]
    /\ ctxOf = [c \in Components |-> CallerCtx]
    /\ scopes = <<>>
    /\ callerCancelled = FALSE
    /\ sawCancel = [c \in Components |-> FALSE]
    /\ calls = [c \in Components |-> 0]
    /\ firstFailed = 0
    /\ retval = NilErr

NoDirective == [key |-> <<>>, value |-> <<>>, override |-> FALSE]

\* ApplyComponentPatches is entered with a component and a list of patches.
InitPatch ==
    /\ \E args \in BaselineArgs :
          component = [name |-> ComponentName, args |-> args,
                       envs |-> <<"ENV0">>, volumes |-> <<"VOL0">>]
    /\ patch = [name |-> "", extraEnvs |-> <<>>, extraVolumes |-> <<>>]
    /\ ppc = "loop"
    /\ pidx = 0
    /\ aidx = 0
    /\ nextra = 0
    /\ nmatched = 0
    /\ argsmap = EmptyMap
    /\ before = component
    /\ cur = NoDirective
    /\ overrode = EmptyMap
    /\ directives = <<>>
    /\ IdleRun
    /\ IdleLog

----------------------------------------------------------------------------
(* Part II: ApplyComponentPatches step by step *)

\* applyComponentPatch with patch.Name != component.Name: it returns at once.
PatchSkip ==
    /\ ppc = "loop"
    /\ pidx < MaxPatches
    /\ \E envs \in ExtraEnvsSet, vols \in ExtraVolumesSet, extra \in SkippedExtraArgs :
          /\ patch' = [name |-> OtherName, extraEnvs |-> envs, extraVolumes |-> vols]
          /\ component' = applyComponentPatch(component,
                              [name |-> OtherName, extraArgs |-> extra,
                               extraEnvs |-> envs, extraVolumes |-> vols])
    /\ pidx' = pidx + 1
    /\ before' = component
    /\ aidx' = 0
    /\ cur' = NoDirective
    /\ overrode' = EmptyMap
    /\ directives' = <<>>
    /\ UNCHANGED <<ppc, nextra, nmatched, argsmap, runVars, logVars>>

\* applyComponentPatch with a matching patch: volumes and envs are appended
\* and applyComponentPatchArgs parses the args into argsmap.
PatchBegin ==
    /\ ppc = "loop"
    /\ pidx < MaxPatches
    /\ \E envs \in ExtraEnvsSet, vols \in ExtraVolumesSet :
          /\ patch' = [name |-> component.name, extraEnvs |-> envs, extraVolumes |-> vols]
          /\ component' = [component EXCEPT !.volumes = @ \o vols, !.envs = @ \o envs]
    /\ argsmap' = ParseArgs(component.args)
    /\ before' = component
    /\ ppc' = "extra"
    /\ aidx' = 0
    /\ cur' = NoDirective
    /\ overrode' = EmptyMap
    /\ directives' = <<>>
    /\ nmatched' = nmatched + 1
    /\ UNCHANGED <<pidx, nextra, runVars, logVars>>

\* One iteration of the loop over patch.ExtraArgs.
ExtraArg ==
    /\ ppc = "extra"
    /\ nextra < MaxExtraArgs
    /\ \E a \in ExtraArgsSet :
          /\ argsmap' = ApplyExtraArg(argsmap, a)
          /\ cur' = a
          /\ overrode' =
                IF a.key \in DOMAIN argsmap /\ a.override
                THEN MapPut(overrode, a.key, a.value)
                ELSE [k \in DOMAIN overrode \ {a.key} |-> overrode[k]]
          /\ directives' = Append(directives, a)
    /\ aidx' = aidx + 1
    /\ nextra' = nextra + 1
    /\ UNCHANGED <<component, patch, ppc, pidx, nmatched, before, runVars, logVars>>

\* patch.ExtraArgs is exhausted: component.Args is rebuilt from argsmap and
\* sorted, and the range loop of ApplyComponentPatches moves on.
PatchEnd ==
    /\ ppc = "extra"
    /\ component' = [component EXCEPT !.args = Rebuild(argsmap)]
    /\ ppc' = "loop"
    /\ pidx' = pidx + 1
    /\ UNCHANGED <<patch, aidx, nextra, nmatched, argsmap, before, cur, overrode, directives,
                   runVars, logVars>>

\* The list of patches is exhausted: ApplyComponentPatches returns.
PatchesDone ==
    /\ ppc = "loop"
    /\ ppc' = "done"
    /\ UNCHANGED <<component, patch, pidx, aidx, nextra, nmatched, argsmap, before, cur,
                   overrode, directives, runVars, logVars>>

NextPatch ==
    \/ PatchSkip
    \/ PatchBegin
    \/ ExtraArg
    \/ PatchEnd
    \/ PatchesDone

SpecPatch == InitPatch /\ [][NextPatch]_vars

----------------------------------------------------------------------------
(* Part II: properties of the patch merge *)

\* A matching patch has just been applied in full.
AfterMatchingPatch ==
    /\ ppc \in {"loop", "done"}
    /\ pidx > 0
    /\ patch.name = component.name

\* The tokens of args that read --k=...
EntriesFor(args, k) ==
    SelectSeq(args, LAMBDA t : HasPrefix(t, <<Dash, Dash>> \o k \o <<Eq>>))

\* C10: a directive with override=true on a key that has a value when it
\* runs leaves that key with the directive's value alone and the other keys
\* as they were; and after the patch, a key whose last directive was such an
\* override has exactly one token --key=value in the args, with that value.
C10_OverrideReplaces ==
    /\ [][(ppc = "extra" /\ aidx' = aidx + 1) =>
             ((cur'.key \in DOMAIN argsmap /\ cur'.override) =>
                 /\ argsmap'[cur'.key] = <<cur'.value>>
                 /\ \A k \in DOMAIN argsmap \ {cur'.key} :
                       k \in DOMAIN argsmap' /\ argsmap'[k] = argsmap[k])]_vars
    /\ [](AfterMatchingPatch =>
             \A k \in DOMAIN overrode :
                 EntriesFor(component.args, k) = <<Sprintf(k, overrode[k])>>)

\* A key that had two values before the patch ends with the one new value of
\* an override directive that ran second in the patch.
C10_Witness ==
    /\ AfterMatchingPatch
    /\ aidx = 2
    /\ \E k \in DOMAIN overrode :
          /\ Len(EntriesFor(before.args, k)) = 2
          /\ \A i \in 1..2 : EntriesFor(before.args, k)[i] # Sprintf(k, overrode[k])
          /\ EntriesFor(component.args, k) = <<Sprintf(k, overrode[k])>>

\* Number of times t occurs in the sequence s.
Count(s, t) == Cardinality({i \in 1..Len(s) : s[i] = t})

\* C11: a directive with override=false leaves every value of its key in
\* place and adds its own value at the end, so the key has one value more,
\* and the other keys are as they were; after the patch every value of the
\* final mapping is a token of the args, duplicates included.
C11_AppendKeeps ==
    /\ [][(ppc = "extra" /\ aidx' = aidx + 1 /\ ~cur'.override) =>
             /\ argsmap'[cur'.key] = Append(MapGet(argsmap, cur'.key), cur'.value)
             /\ Len(argsmap'[cur'.key]) = Len(MapGet(argsmap, cur'.key)) + 1
             /\ \A k \in DOMAIN argsmap \ {cur'.key} :
                   k \in DOMAIN argsmap' /\ argsmap'[k] = argsmap[k]]_vars
    /\ [](AfterMatchingPatch =>
             \A k \in DOMAIN argsmap :
                 /\ Len(EntriesFor(component.args, k)) = Len(argsmap[k])
                 /\ \A i \in 1..Len(argsmap[k]) :
                       Count(component.args, Sprintf(k, argsmap[k][i]))
                           = Count(argsmap[k], argsmap[k][i]))

\* The same non-override directive ran twice in a patch on a key that had a
\* value: the args hold its token twice, and two entries more for the key.
C11_Witness ==
    /\ AfterMatchingPatch
    /\ aidx = 2
    /\ ~cur.override
    /\ Count(before.args, Sprintf(cur.key, cur.value)) = 0
    /\ Count(component.args, Sprintf(cur.key, cur.value)) = 2
    /\ Len(EntriesFor(before.args, cur.key)) >= 1
    /\ Len(EntriesFor(component.args, cur.key)) = Len(EntriesFor(before.args, cur.key)) + 2

\* s <= t byte by byte, a proper prefix being smaller.
RECURSIVE LexLeq(_, _)
LexLeq(s, t) ==
    IF s = <<>> THEN TRUE
    ELSE IF t = <<>> THEN FALSE
    ELSE IF Ord(Head(s)) # Ord(Head(t)) THEN Ord(Head(s)) < Ord(Head(t))
    ELSE LexLeq(Tail(s), Tail(t))

IsSorted(args) == \A i \in 1..(Len(args) - 1) : LexLeq(args[i], args[i + 1])

\* The call is between two patches or has returned.
BetweenPatches == ppc \in {"loop", "done"}

\* C12: once at least one matching patch has been applied, the args of the
\* component are in ascending byte-wise lexicographic order of the tokens.
C12_ArgsSorted ==
    (BetweenPatches /\ nmatched >= 1) => IsSorted(component.args)

\* The first matching patch of the call met args that were not sorted and
\* left three or more tokens, not all equal.
C12_Witness ==
    /\ AfterMatchingPatch
    /\ nmatched = 1
    /\ ~IsSorted(before.args)
    /\ Len(component.args) >= 3
    /\ \E i, j \in 1..Len(component.args) : component.args[i] # component.args[j]

\* C13: the step that goes through a patch whose name differs from the
\* component's leaves the component (args, envs, volumes) exactly as it was.
C13_NonMatchingNoOp ==
    [][(ppc = "loop" /\ pidx' = pidx + 1 /\ patch'.name # component.name) =>
          /\ component'.args = component.args
          /\ component'.envs = component.envs
          /\ component'.volumes = component.volumes]_vars

\* A non-matching patch was gone through right after a matching one, and a
\* matching one can follow.
C13_Witness ==
    /\ ppc = "loop"
    /\ pidx = 2
    /\ nmatched = 1
    /\ patch.name # component.name
    /\ component.args # <<>>
    /\ pidx < MaxPatches

\* A non-matching patch was gone through first, on args that are not sorted
\* and hold a token that does not parse.
C13_UnsortedReached ==
    /\ ppc = "loop"
    /\ pidx = 1
    /\ nmatched = 0
    /\ patch.name # component.name
    /\ ~IsSorted(component.args)
    /\ \E i \in 1..Len(component.args) : getKeyValueFromArg(component.args[i])[1] = <<>>

\* A token that does not begin with "--" or holds no "=".
Malformed(t) == ~HasPrefix(t, <<Dash, Dash>>) \/ ~Contains(t, Eq)

\* Number of values the mapping m holds for the keys in keys.
RECURSIVE NumValues(_, _)
NumValues(m, keys) ==
    IF keys = {} THEN 0
    ELSE LET k == CHOOSE k \in keys : TRUE
         IN Len(m[k]) + NumValues(m, keys \ {k})

\* C14: the call is never anywhere but in its loops or returned (there is no
\* failing path) and the rebuild is defined on every mapping, one token per
\* value; the parse takes no value from a malformed token; and no
\* malformed token of the args the patch met is a token of the args it leaves.
C14_MalformedDropped ==
    /\ ppc \in {"loop", "extra", "done"}
    /\ ppc = "extra" => Len(Rebuild(argsmap)) = NumValues(argsmap, DOMAIN argsmap)
    /\ (ppc = "extra" /\ aidx = 0) =>
          NumValues(argsmap, DOMAIN argsmap)
              <= Cardinality({i \in 1..Len(before.args) : ~Malformed(before.args[i])})
    /\ AfterMatchingPatch =>
          \A i \in 1..Len(before.args) :
              Malformed(before.args[i]) => Count(component.args, before.args[i]) = 0

\* The first matching patch met a malformed token next to a well-formed one:
\* only the latter is left.
C14_Witness ==
    /\ AfterMatchingPatch
    /\ nmatched = 1
    /\ aidx = 0
    /\ Len(before.args) = 2
    /\ \E i \in 1..2 : Malformed(before.args[i])
    /\ Len(component.args) = 1

\* The keys named by the override directives of the patch.
Targets == {directives[i].key : i \in {j \in 1..Len(directives) : directives[j].override}}

\* C16: a token reads --key=value when it begins with "--" and holds "=",
\* with the key between "--" and the first "=" and the value after that "=",
\* neither of them empty. When every arg of the component reads so, a
\* matching patch keeps each baseline pair whose key no override directive
\* of the patch names: its token is in the final args at least as often as
\* in the baseline; and a matching patch without extraArgs leaves every
\* token with the multiplicity it had, so that only the order of the args
\* changes.
C16_BaselineKept ==
    LET Key(t) == SubSeq(FirstField(t), 3, Len(FirstField(t)))
        Value(t) == SubSeq(t, Len(FirstField(t)) + 2, Len(t))
        KeyValue(t) ==
            /\ HasPrefix(t, <<Dash, Dash>>)
            /\ Contains(t, Eq)
            /\ Key(t) # <<>>
            /\ Value(t) # <<>>
    IN
    (AfterMatchingPatch /\ \A i \in 1..Len(before.args) : KeyValue(before.args[i])) =>
        /\ \A i \in 1..Len(before.args) :
              Key(before.args[i]) \notin Targets =>
                  Count(component.args, before.args[i]) >= Count(before.args, before.args[i])
        /\ aidx = 0 =>
              \A t \in Range(before.args) \cup Range(component.args) :
                  Count(component.args, t) = Count(before.args, t)

\* The ways to reorder n elements, for every n a list of args or of
\* directives can have.
IndexPerms ==
    [n \in 0..(MaxArgs + MaxExtraArgs) |->
        {g \in [1..n -> 1..n] : Range(g) = 1..n}]

\* The sequences that hold the elements of s in some order, s included.
Perms(s) == {[i \in 1..Len(s) |-> s[g[i]]] : g \in IndexPerms[Len(s)]}

\* C20: the args a matching patch ends with are those applyComponentPatchArgs
\* yields from any reordering of the baseline args and the same directives;
\* and when no directive of the patch has override set, they are those it
\* yields from the baseline args and any reordering of the directives.
C20_OrderIndependent ==
    [][(ppc = "extra" /\ ppc' = "loop") =>
          /\ \A args \in Perms(before.args) :
                applyComponentPatchArgs(args, directives) = component'.args
          /\ (\A i \in 1..Len(directives) : ~directives[i].override) =>
                \A extra \in Perms(directives) \ {directives} :
                    applyComponentPatchArgs(before.args, extra) = component'.args]_vars

\* Two baseline args of one key, parsed into different value lists in the
\* two orders, and two different non-override directives on that key.
C20_Witness ==
    /\ AfterMatchingPatch
    /\ Len(before.args) = 2
    /\ ParseArgs(before.args) # ParseArgs(Reverse(before.args))
    /\ Len(directives) = 2
    /\ directives[1] # directives[2]
    /\ directives[1].key = directives[2].key
    /\ ~directives[1].override /\ ~directives[2].override
    /\ directives[1].key \in DOMAIN ParseArgs(before.args)
    /\ ApplyExtraArgs(ParseArgs(before.args), directives)
           # ApplyExtraArgs(ParseArgs(before.args), Reverse(directives))
    /\ Len(component.args) = 4

\* ========================================================================
\* Part III: GetLogVolumes
\* ========================================================================

Slash == "/"
Dot == "."

\* Index of the last "/" of p, 0 when there is none.
LastSlash(p) ==
    IF \E i \in 1..Len(p) : p[i] = Slash
    THEN CHOOSE i \in 1..Len(p) :
             /\ p[i] = Slash
             /\ \A j \in (i + 1)..Len(p) : p[j] # Slash
    ELSE 0

\* path.Dir on a clean path: everything before the last "/", "." for a
\* bare file name, "/" for a file of the root directory.
Dir(p) ==
    LET k == LastSlash(p) IN
    IF k = 0 THEN <<Dot>>
    ELSE IF k = 1 THEN <<Slash>>
    ELSE SubSeq(p, 1, k - 1)

\* The decimal digit d as a character.
Digit(d) ==
    CASE d = 0 -> "0" [] d = 1 -> "1" [] d = 2 -> "2" [] d = 3 -> "3"
      [] d = 4 -> "4" [] d = 5 -> "5" [] d = 6 -> "6" [] d = 7 -> "7"
      [] d = 8 -> "8" [] d = 9 -> "9"

\* The verb %d of fmt.Sprintf on a non-negative integer.
RECURSIVE Itoa(_)
Itoa(n) == IF n < 10 THEN <<Digit(n)>> ELSE Itoa(n \div 10) \o <<Digit(n % 10)>>

LogVolumePrefix == <<"l", "o", "g", "-", "v", "o", "l", "u", "m", "e", "-">>

\* The volume of the i-th (0-based) directory, with every volume named alike.
VolumeUnnumbered(i, logsDir) ==
    [name      |-> LogVolumePrefix \o Itoa(0),
     hostPath  |-> logsDir,
     mountPath |-> logsDir,
     pathType  |-> "HostPathDirectoryOrCreate",
     readOnly  |-> TRUE]

\* The volume of the i-th (0-based) directory of logsDirs.
Volume(i, logsDir) ==
    [name      |-> LogVolumePrefix \o Itoa(i),
     hostPath  |-> logsDir,
     mountPath |-> logsDir,
     pathType  |-> "HostPathDirectoryOrCreate",
     readOnly  |-> TRUE]

\* maps.Keys: the keys of the map in any order.
Keys(dirs) ==
    {s \in [1..Cardinality(dirs) -> dirs] : Range(s) = dirs}

\* The log / attach file paths of the resources.
LogsFiles ==
    { <<"/", "a", "/", "x">>,
      <<"/", "a", "/", "y">>,
      <<"/", "b", "/", "x">>,
      <<"/", "b", "/", "y">>,
      <<"/", "a", "/", "b", "/", "x">>,
      <<"/", "x">>,
      <<"x">> }

\* The four kinds of resource, in the order of the four loops.
Kinds == <<"Logs", "ClusterLogs", "Attach", "ClusterAttach">>

InitLog ==
    /\ lpc = "collect"
    /\ lcat = 1
    /\ nfiles = 0
    /\ seenFiles = {}
    /\ mountDirs = {}
    /\ volumes = <<>>
    /\ IdleRun
    /\ IdlePatch

\* One entry of the loop over the resources of kind Kinds[lcat].
MountDir ==
    /\ lpc = "collect"
    /\ nfiles < MaxLogFiles
    /\ \E f \in LogsFiles :
          /\ mountDirs' = mountDirs \cup {Dir(f)}
          /\ seenFiles' = seenFiles \cup {f}
    /\ nfiles' = nfiles + 1
    /\ UNCHANGED <<lpc, lcat, volumes, runVars, patchVars>>

\* The loop over one kind of resource ends and the next one begins.
NextKind ==
    /\ lpc = "collect"
    /\ lcat < Len(Kinds)
    /\ lcat' = lcat + 1
    /\ UNCHANGED <<lpc, nfiles, seenFiles, mountDirs, volumes, runVars, patchVars>>

\* After the four loops: the keys are taken, sorted, and one volume is
\* built per key; the function returns.
ReturnVolumes ==
    /\ lpc = "collect"
    /\ lcat = Len(Kinds)
    /\ \E keys \in Keys(mountDirs) :
          LET logsDirs == SortStrings(keys) IN
          volumes' = [i \in 1..Len(logsDirs) |-> Volume(i - 1, logsDirs[i])]
    /\ lpc' = "done"
    /\ UNCHANGED <<lcat, nfiles, seenFiles, mountDirs, runVars, patchVars>>

NextLog ==
    \/ MountDir
    \/ NextKind
    \/ ReturnVolumes

SpecLog == InitLog /\ [][NextLog]_vars

\* C15: GetLogVolumes returns exactly one volume per distinct directory of
\* the log / attach file paths of all four kinds; the volumes are in strictly
\* ascending byte order of directory; the volume at 0-based position i is
\* named log-volume-<i>, so the names are pairwise distinct; every volume
\* has hostPath = mountPath = the directory and is read-only.
C15_LogVolumes ==
    lpc = "done" =>
        LET dirs == {Dir(f) : f \in seenFiles} IN
        /\ Len(volumes) = Cardinality(dirs)
        /\ {volumes[i].hostPath : i \in 1..Len(volumes)} = dirs
        /\ \A i, j \in 1..Len(volumes) :
              i < j => /\ StrLess(volumes[i].hostPath, volumes[j].hostPath)
                       /\ volumes[i].name # volumes[j].name
        /\ \A i \in 1..Len(volumes) :
              /\ volumes[i].name = LogVolumePrefix \o Itoa(i - 1)
              /\ volumes[i].mountPath = volumes[i].hostPath
              /\ volumes[i].readOnly

\* Three files, two of them in one directory, gave two volumes, and the
\* byte order of the two directories differs from their order by length.
C15_Witness ==
    /\ lpc = "done"
    /\ Cardinality(seenFiles) = 3
    /\ \E f, g \in seenFiles : f # g /\ Dir(f) = Dir(g)
    /\ Len(volumes) = 2
    /\ Len(volumes[1].hostPath) > Len(volumes[2].hostPath)

====
